---- MODULE Spec2Model ----
(***************************************************************************)
(* strava-haddock: the transform flow (haddock.py), the authorization flow *)
(* (auth.py) and the summary formatter format_duration, as state machines. *)
(* Every network answer (status, body) is an input chosen by the           *)
(* environment; every Python exception ends the run with its name as the   *)
(* outcome.                                                                *)
(***************************************************************************)
EXTENDS Integers, Sequences, FiniteSets, TLC

VARIABLES
    \* ---- haddock.py: module globals and main's locals
    STRAVA_ACCESS_TOKEN,   \* global, haddock.py:27, reassigned at :70
    STRAVA_REFRESH_TOKEN,  \* global, haddock.py:28, never reassigned
    ANTHROPIC_API_KEY,     \* global, haddock.py:31
    args,                  \* argparse namespace, haddock.py:268
    pc,                    \* position of the transform flow
    fetched,               \* JSON returned by the fetching strava_request
    activities,            \* main's list, haddock.py:282-290
    idx,                   \* position of the for loop, haddock.py:296
    generated,             \* (new_title, new_description), haddock.py:310
    \* ---- one strava_request call in progress
    req,                   \* method, endpoint and payload of the call
    ret,                   \* where main continues when the call returns
    statuses,              \* status codes answered to this call's requests
    nrefresh,              \* refresh POSTs issued by this call
    refresh_result,        \* this call's refresh POST: status, exception
    callState,             \* none | active | returned | raised
    tokens,                \* JSON of the last successful refresh, :48
    \* ---- what the run did
    log,                   \* calls and HTTP requests, in order
    strava,                \* the source service's name/description per activity
    outcome,               \* how main ended
    \* ---- the credential file, shared by both flows
    env,                   \* .env: the two token keys
    set_key_calls,         \* every set_key, in order
    \* ---- auth.py
    CLIENT_ID,             \* auth.py:22
    CLIENT_SECRET,         \* auth.py:23
    auth_code,             \* global, auth.py:28
    apc,                   \* position of the authorization flow
    inbound,               \* requests the listener handled, with the answer
    browser_opened,        \* webbrowser.open was called, auth.py:116
    server,                \* none | listening | closed
    exchange_posts,        \* codes POSTed to the token endpoint
    exchange_response,     \* answer to the token-exchange POST
    auth_outcome,          \* how auth.main ended
    \* ---- format_duration
    seconds,               \* the argument
    duration               \* the returned string

hvars == <<STRAVA_ACCESS_TOKEN, STRAVA_REFRESH_TOKEN, ANTHROPIC_API_KEY, args,
           pc, fetched, activities, idx, generated, req, ret, statuses,
           nrefresh, refresh_result, callState, tokens, log, strava, outcome>>
fvars == <<env, set_key_calls>>
avars == <<CLIENT_ID, CLIENT_SECRET, auth_code, apc, inbound, browser_opened,
           server, exchange_posts, exchange_response, auth_outcome>>
dvars == <<seconds, duration>>
vars == <<hvars, fvars, avars, dvars>>

\* ------------------------------------------------------------------ bounds
\* Largest --activities N and longest activity list the service answers.
MaxActs == 2
\* Most inbound requests the local listener is sent.
MaxInbound == 3
\* Largest argument of format_duration.
MaxSeconds == 7325

\* --------------------------------------------------------- Python values
\* os.getenv gives None for an unset key; "None" stands for it.
PyNoneStr == "None"
\* `not s` for a string or None.
Falsy(s) == s \in {PyNoneStr, ""}

\* JSON values: None, a list, or an activity object with its id.
PyNone == [kind |-> "None", id |-> 0, items |-> <<>>]
PyList(s) == [kind |-> "list", id |-> 0, items |-> s]
PyDict(i) == [kind |-> "dict", id |-> i, items |-> <<>>]
\* `not v` is ~Truthy(v); an activity object always has keys.
Truthy(v) == CASE v.kind = "None" -> FALSE
               [] v.kind = "list" -> v.items # <<>>
               [] OTHER -> TRUE

\* An optional integer option of argparse: absent (None) or a value.
Absent == [set |-> FALSE, val |-> 0]
Given(n) == [set |-> TRUE, val |-> n]
\* `if args.x:` for an optional integer.
OptTruthy(o) == o.set /\ o.val # 0

ActivityIds == 1..MaxActs
\* Lists of distinct activities, at most n long, most recent (largest id)
\* first, as the list endpoint orders them.
ActivityLists(n) ==
    {s \in UNION {[1..k -> ActivityIds] : k \in 0..n} :
        \A i, j \in 1..Len(s) : i < j => s[i] > s[j]}
\* What haddockify parses from the reply: both markers found, the
\* DESCRIPTION marker missing, or neither found.
Generations == {[title |-> "T1", description |-> "D1"],
                [title |-> "T1", description |-> ""],
                [title |-> "", description |-> ""]}
Untouched == [name |-> "orig", description |-> "orig"]

Statuses == {200, 401, 500}
RefreshStatuses == {200, 400}
\* Token pairs the token endpoint may issue.
TokenPairs == {[access_token |-> "a1", refresh_token |-> "r1"],
               [access_token |-> "a2", refresh_token |-> "r2"]}
\* Keys a 2xx token response may lack.
BodyShapes == {"full", "no_access_token", "no_refresh_token"}

\* requests.Response.raise_for_status: raises on 4xx and 5xx.
raise_for_status(status) == status >= 400

\* dotenv.set_key on the credential file.
set_key(file, key, value) == [file EXCEPT ![key] = value]

NoGenerated == [title |-> "", description |-> ""]
NoReq == [method |-> "", id |-> 0, per_page |-> 0, name |-> "", description |-> ""]
NoRefresh == [status |-> 0, exc |-> ""]
NoTokens == [access_token |-> PyNoneStr, refresh_token |-> PyNoneStr]
\* A logged call or HTTP request: i is the loop position (0 outside the loop),
\* token the bearer or refresh token the request carried.
Event(ev, i, id, token, title, description) ==
    [ev |-> ev, i |-> i, id |-> id, token |-> token, title |-> title,
     description |-> description]

\* ------------------------------------------------- haddock.py: functions

\* Variant: every failed response starts the refresh.
NeedsRefreshOnAnyError(status) == status # 200

\* haddock.py:68, the condition that starts the refresh.
NeedsRefresh(status) == status = 401

\* Variant: the file is written before the status is looked at.
refresh_access_token_WritesFirst(status, shape, a, r) ==
    [exc |-> IF raise_for_status(status) THEN "HTTPError" ELSE "",
     env |-> set_key(set_key(env, "STRAVA_ACCESS_TOKEN", a),
                     "STRAVA_REFRESH_TOKEN", r),
     calls |-> set_key_calls \o <<<<"STRAVA_ACCESS_TOKEN", a>>,
                                  <<"STRAVA_REFRESH_TOKEN", r>>>>,
     access |-> a]

\* haddock.py:36-55. The refresh POST was answered `status` with a body of
\* `shape` carrying tokens a and r: the exception raised (if any), the
\* credential file and the set_key calls afterwards, and the value returned.
refresh_access_token(status, shape, a, r) ==
    IF raise_for_status(status)
    THEN [exc |-> "HTTPError", env |-> env, calls |-> set_key_calls,
          access |-> PyNoneStr]
    ELSE IF shape = "no_access_token"
    THEN [exc |-> "KeyError", env |-> env, calls |-> set_key_calls,
          access |-> PyNoneStr]
    ELSE IF shape = "no_refresh_token"
    THEN [exc |-> "KeyError",
          env |-> set_key(env, "STRAVA_ACCESS_TOKEN", a),
          calls |-> Append(set_key_calls, <<"STRAVA_ACCESS_TOKEN", a>>),
          access |-> PyNoneStr]
    ELSE [exc |-> "",
          env |-> set_key(set_key(env, "STRAVA_ACCESS_TOKEN", a),
                          "STRAVA_REFRESH_TOKEN", r),
          calls |-> set_key_calls \o <<<<"STRAVA_ACCESS_TOKEN", a>>,
                                       <<"STRAVA_REFRESH_TOKEN", r>>>>,
          access |-> a]

\* haddock.py:77-81, after its strava_request returned `body`.
get_last_N_activities(body) == IF ~Truthy(body) THEN PyNone ELSE body

\* haddock.py:83-88, after its strava_request returned `body`.
get_latest_activity(body) == IF ~Truthy(body) THEN PyNone ELSE body.items[1]

\* haddock.py:91-93, after its strava_request returned `body`.
get_activity(body) == body

\* haddock.py:240-246, the request update_activity hands to strava_request.
update_activity(activity_id, title, description) ==
    [method |-> "PUT", id |-> activity_id, per_page |-> 0, name |-> title,
     description |-> description]

\* haddock.py:283-290, the request of the chosen selection mode.
FetchRequest ==
    IF OptTruthy(args.activity)
    THEN [NoReq EXCEPT !.method = "GET", !.id = args.activity.val]
    ELSE IF OptTruthy(args.activities)
    THEN [NoReq EXCEPT !.method = "GET", !.per_page = args.activities.val]
    ELSE [NoReq EXCEPT !.method = "GET", !.per_page = 1]

\* haddock.py:283-290, main's `activities` once the fetch returned.
ResolveActivities ==
    IF OptTruthy(args.activity)
    THEN PyList(<<get_activity(fetched)>>)
    ELSE IF OptTruthy(args.activities)
    THEN get_last_N_activities(fetched)
    ELSE PyList(<<get_latest_activity(fetched)>>)

\* Variant: the flag is not consulted.
ShouldUpdateAlways == TRUE

\* haddock.py:322, whether the loop body writes back.
ShouldUpdate == ~args.dry_run

\* Variant: continue instead of return.
OnAPIErrorContinue == [pc |-> "loop", idx |-> idx + 1]

\* haddock.py:311-313, where the loop goes after a caught APIError: return.
OnAPIError == [pc |-> "done", idx |-> idx]

\* JSON bodies the service may answer to request r.
Bodies(r) ==
    IF r.id # 0
    THEN {PyDict(r.id)}
    ELSE {PyList([k \in 1..Len(s) |-> PyDict(s[k])]) :
             s \in ActivityLists(IF r.per_page < MaxActs THEN r.per_page ELSE MaxActs)}

\* The loop position a request belongs to.
LoopPos == IF req.method = "PUT" THEN idx ELSE 0

\* -------------------------------------------- haddock.py: the transform flow

HInit ==
    /\ STRAVA_ACCESS_TOKEN \in {PyNoneStr, "a0"}
    /\ STRAVA_REFRESH_TOKEN = "r0"
    /\ ANTHROPIC_API_KEY \in {PyNoneStr, "your_anthropic_api_key_here", "sk-key"}
    /\ args \in [dry_run : BOOLEAN,
                 activity : {Absent} \cup {Given(n) : n \in 0..MaxActs},
                 activities : {Absent} \cup {Given(n) : n \in 0..MaxActs}]
    /\ pc = "main"
    /\ fetched = PyNone
    /\ activities = PyList(<<>>)
    /\ idx = 0
    /\ generated = NoGenerated
    /\ req = NoReq
    /\ ret = ""
    /\ statuses = <<>>
    /\ nrefresh = 0
    /\ refresh_result = NoRefresh
    /\ callState = "none"
    /\ tokens = NoTokens
    /\ log = <<>>
    /\ strava = [a \in ActivityIds |-> Untouched]
    /\ outcome = ""
    \* load_dotenv: the globals are the file's values
    /\ env = [STRAVA_ACCESS_TOKEN |-> STRAVA_ACCESS_TOKEN,
              STRAVA_REFRESH_TOKEN |-> STRAVA_REFRESH_TOKEN]
    /\ set_key_calls = <<>>

\* strava_request is entered with request r; main continues at `cont`.
StartCall(r, cont) ==
    /\ req' = r
    /\ ret' = cont
    /\ statuses' = <<>>
    /\ nrefresh' = 0
    /\ refresh_result' = NoRefresh
    /\ callState' = "active"
    /\ pc' = "request"

\* haddock.py:74-75: the last response of the call, raised or returned.
Respond(status, body) ==
    IF raise_for_status(status)
    THEN /\ pc' = "done"
         /\ outcome' = "HTTPError"
         /\ callState' = "raised"
         /\ UNCHANGED <<fetched, strava>>
    ELSE /\ pc' = ret
         /\ callState' = "returned"
         /\ fetched' = IF req.method = "GET" THEN body ELSE fetched
         /\ strava' = IF req.method = "PUT"
                      THEN [strava EXCEPT ![req.id] =
                              [name |-> req.name, description |-> req.description]]
                      ELSE strava
         /\ UNCHANGED outcome

\* haddock.py:270-278
Validate ==
    /\ pc = "main"
    /\ IF Falsy(STRAVA_ACCESS_TOKEN)
       THEN pc' = "done" /\ outcome' = "ERROR: No Strava access token"
       ELSE IF Falsy(ANTHROPIC_API_KEY)
               \/ ANTHROPIC_API_KEY = "your_anthropic_api_key_here"
       THEN pc' = "done" /\ outcome' = "ERROR: Set ANTHROPIC_API_KEY"
       ELSE pc' = "fetch" /\ UNCHANGED outcome
    /\ UNCHANGED <<STRAVA_ACCESS_TOKEN, STRAVA_REFRESH_TOKEN, ANTHROPIC_API_KEY,
                   args, fetched, activities, idx, generated, req, ret,
                   statuses, nrefresh, refresh_result, callState, tokens, log,
                   strava, env, set_key_calls>>
    /\ UNCHANGED <<avars, dvars>>

\* haddock.py:281-290, up to the entry of strava_request
FetchActivity ==
    /\ pc = "fetch"
    /\ StartCall(FetchRequest, "fetched")
    /\ UNCHANGED <<STRAVA_ACCESS_TOKEN, STRAVA_REFRESH_TOKEN, ANTHROPIC_API_KEY,
                   args, fetched, activities, idx, generated, tokens, log,
                   strava, outcome, env, set_key_calls>>
    /\ UNCHANGED <<avars, dvars>>

\* haddock.py:62-68 and, when no refresh is needed, 74-75
Request ==
    /\ pc = "request"
    /\ \E status \in Statuses, body \in Bodies(req) :
         /\ statuses' = Append(statuses, status)
         /\ log' = Append(log, Event(req.method, LoopPos, req.id,
                                     STRAVA_ACCESS_TOKEN, req.name, req.description))
         /\ IF NeedsRefresh(status)
            THEN /\ pc' = "refresh"
                 /\ UNCHANGED <<fetched, strava, outcome, callState>>
            ELSE Respond(status, body)
    /\ UNCHANGED <<STRAVA_ACCESS_TOKEN, STRAVA_REFRESH_TOKEN, ANTHROPIC_API_KEY,
                   args, activities, idx, generated, req, ret, nrefresh,
                   refresh_result, tokens, env, set_key_calls>>
    /\ UNCHANGED <<avars, dvars>>

\* haddock.py:69-70 with refresh_access_token, 36-55
Refresh ==
    /\ pc = "refresh"
    /\ \E status \in RefreshStatuses, shape \in BodyShapes, t \in TokenPairs :
         LET a == t.access_token
             r == t.refresh_token
             res == refresh_access_token(status, shape, a, r) IN
         /\ nrefresh' = nrefresh + 1
         /\ refresh_result' = [status |-> status, exc |-> res.exc]
         /\ log' = Append(log, Event("refresh", LoopPos, req.id,
                                     STRAVA_REFRESH_TOKEN, "", ""))
         /\ env' = res.env
         /\ set_key_calls' = res.calls
         /\ IF res.exc # ""
            THEN /\ pc' = "done"
                 /\ outcome' = res.exc
                 /\ callState' = "raised"
                 /\ UNCHANGED <<STRAVA_ACCESS_TOKEN, tokens>>
            ELSE /\ pc' = "retry"
                 /\ STRAVA_ACCESS_TOKEN' = res.access
                 /\ tokens' = [access_token |-> a, refresh_token |-> r]
                 /\ UNCHANGED <<outcome, callState>>
    /\ UNCHANGED <<STRAVA_REFRESH_TOKEN, ANTHROPIC_API_KEY, args, fetched,
                   activities, idx, generated, req, ret, statuses, strava>>
    /\ UNCHANGED <<avars, dvars>>

\* haddock.py:71-75
Retry ==
    /\ pc = "retry"
    /\ \E status \in Statuses, body \in Bodies(req) :
         /\ statuses' = Append(statuses, status)
         /\ log' = Append(log, Event(req.method, LoopPos, req.id,
                                     STRAVA_ACCESS_TOKEN, req.name, req.description))
         /\ Respond(status, body)
    /\ UNCHANGED <<STRAVA_ACCESS_TOKEN, STRAVA_REFRESH_TOKEN, ANTHROPIC_API_KEY,
                   args, activities, idx, generated, req, ret, nrefresh,
                   refresh_result, tokens, env, set_key_calls>>
    /\ UNCHANGED <<avars, dvars>>

\* haddock.py:283-294, after the fetch returned
Resolve ==
    /\ pc = "fetched"
    /\ activities' = ResolveActivities
    /\ IF ~Truthy(activities')
       THEN pc' = "done" /\ outcome' = "No activities found!" /\ UNCHANGED idx
       ELSE pc' = "loop" /\ idx' = 1 /\ UNCHANGED outcome
    /\ UNCHANGED <<STRAVA_ACCESS_TOKEN, STRAVA_REFRESH_TOKEN, ANTHROPIC_API_KEY,
                   args, fetched, generated, req, ret, statuses, nrefresh,
                   refresh_result, callState, tokens, log, strava, env,
                   set_key_calls>>
    /\ UNCHANGED <<avars, dvars>>

\* haddock.py:296-307: the next activity, and its subscripts
LoopHead ==
    /\ pc = "loop"
    /\ IF idx > Len(activities.items)
       THEN pc' = "done" /\ outcome' = "completed"
       ELSE IF activities.items[idx].kind # "dict"
       THEN pc' = "done" /\ outcome' = "TypeError"
       ELSE pc' = "haddockify" /\ UNCHANGED outcome
    /\ UNCHANGED <<STRAVA_ACCESS_TOKEN, STRAVA_REFRESH_TOKEN, ANTHROPIC_API_KEY,
                   args, fetched, activities, idx, generated, req, ret,
                   statuses, nrefresh, refresh_result, callState, tokens, log,
                   strava, env, set_key_calls>>
    /\ UNCHANGED <<avars, dvars>>

\* haddock.py:309-313 with haddockify, 178-237
Haddockify ==
    /\ pc = "haddockify"
    /\ LET id == activities.items[idx].id
           call == Event("haddockify", idx, id, "", "", "") IN
       \/ \E g \in Generations :
            /\ generated' = g
            /\ log' = log \o <<call, Event("generated", idx, id, "",
                                           g.title, g.description)>>
            /\ pc' = "publish"
            /\ UNCHANGED <<idx, outcome>>
       \/ /\ log' = log \o <<call, Event("APIError", idx, id, "", "", "")>>
          /\ pc' = OnAPIError.pc
          /\ idx' = OnAPIError.idx
          /\ outcome' = IF OnAPIError.pc = "done"
                        THEN "Error calling Claude API" ELSE outcome
          /\ UNCHANGED generated
       \/ /\ log' = log \o <<call, Event("Exception", idx, id, "", "", "")>>
          /\ pc' = "done"
          /\ outcome' = "Exception"
          /\ UNCHANGED <<idx, generated>>
    /\ UNCHANGED <<STRAVA_ACCESS_TOKEN, STRAVA_REFRESH_TOKEN, ANTHROPIC_API_KEY,
                   args, fetched, activities, req, ret, statuses, nrefresh,
                   refresh_result, callState, tokens, strava, env,
                   set_key_calls>>
    /\ UNCHANGED <<avars, dvars>>

\* haddock.py:322-326, up to the entry of strava_request
Publish ==
    /\ pc = "publish"
    /\ LET id == activities.items[idx].id IN
       IF ShouldUpdate
       THEN /\ StartCall(update_activity(id, generated.title,
                                         generated.description), "updated")
            /\ log' = Append(log, Event("update_activity", idx, id, "",
                                        generated.title, generated.description))
            /\ UNCHANGED idx
       ELSE /\ pc' = "loop"
            /\ idx' = idx + 1
            /\ UNCHANGED <<req, ret, statuses, nrefresh, refresh_result,
                           callState, log>>
    /\ UNCHANGED <<STRAVA_ACCESS_TOKEN, STRAVA_REFRESH_TOKEN, ANTHROPIC_API_KEY,
                   args, fetched, activities, generated, tokens, strava,
                   outcome, env, set_key_calls>>
    /\ UNCHANGED <<avars, dvars>>

\* haddock.py:327-328, after update_activity returned
Updated ==
    /\ pc = "updated"
    /\ pc' = "loop"
    /\ idx' = idx + 1
    /\ UNCHANGED <<STRAVA_ACCESS_TOKEN, STRAVA_REFRESH_TOKEN, ANTHROPIC_API_KEY,
                   args, fetched, activities, generated, req, ret, statuses,
                   nrefresh, refresh_result, callState, tokens, log, strava,
                   outcome, env, set_key_calls>>
    /\ UNCHANGED <<avars, dvars>>

HNext ==
    \/ Validate
    \/ FetchActivity
    \/ Request
    \/ Refresh
    \/ Retry
    \/ Resolve
    \/ LoopHead
    \/ Haddockify
    \/ Publish
    \/ Updated

\* ------------------------------------------- auth.py: the authorization flow

ClientIds == {PyNoneStr, "", "your_client_secret_here", "12345"}
ClientSecrets == {PyNoneStr, "", "your_client_secret_here", "s3cret"}
Codes == {PyNoneStr, "", "c1", "c2"}
Errors == {PyNoneStr, "access_denied"}
\* A GET the listener may be sent: its path and the raw query values
\* (PyNoneStr: the key is not in the query).
InboundRequests == [path : {"/callback", "/favicon.ico"}, code : Codes, error : Errors]
ExchangeStatuses == {200, 400}
NoResponse == [status |-> 0, shape |-> "", access_token |-> PyNoneStr,
               refresh_token |-> PyNoneStr]

\* Variant: the placeholder is not compared.
ConfigMissingNoPlaceholder == Falsy(CLIENT_ID) \/ Falsy(CLIENT_SECRET)

\* auth.py:94, the configuration check.
ConfigMissing ==
    \/ Falsy(CLIENT_ID)
    \/ Falsy(CLIENT_SECRET)
    \/ CLIENT_SECRET = "your_client_secret_here"

\* urllib.parse.parse_qs as auth.py:37 uses it: the keys of the query, a key
\* with a blank value dropped.
parse_qs(r) ==
    {k \in {"code", "error"} :
        IF k = "code" THEN ~Falsy(r.code) ELSE ~Falsy(r.error)}

\* auth.py:32-61: the status answered and auth_code afterwards.
do_GET(r) ==
    IF r.path = "/callback"
    THEN IF "code" \in parse_qs(r)
         THEN [status |-> 200, auth_code |-> r.code]
         ELSE IF "error" \in parse_qs(r)
         THEN [status |-> 400, auth_code |-> auth_code]
         ELSE [status |-> 404, auth_code |-> auth_code]
    ELSE [status |-> 404, auth_code |-> auth_code]

\* auth.py:121, the condition of the waiting loop.
Waiting == auth_code = PyNoneStr

\* Variant: raise_for_status is not called.
exchange_code_for_tokens_NoRaise(status) == ""

\* auth.py:78-90: the exception exchange_code_for_tokens raises, if any.
exchange_code_for_tokens(status) ==
    IF raise_for_status(status) THEN "HTTPError" ELSE ""

\* auth.py:129-151: how main ends after the exchange answered `resp`, with
\* the credential file and the set_key calls afterwards.
SaveTokens(resp) ==
    IF exchange_code_for_tokens(resp.status) # ""
    THEN [outcome |-> "Error exchanging code", env |-> env, calls |-> set_key_calls]
    ELSE IF resp.shape # "full"
    THEN [outcome |-> "KeyError", env |-> env, calls |-> set_key_calls]
    ELSE [outcome |-> "Tokens saved to .env file!",
          env |-> set_key(set_key(env, "STRAVA_ACCESS_TOKEN", resp.access_token),
                          "STRAVA_REFRESH_TOKEN", resp.refresh_token),
          calls |-> set_key_calls \o
                      <<<<"STRAVA_ACCESS_TOKEN", resp.access_token>>,
                        <<"STRAVA_REFRESH_TOKEN", resp.refresh_token>>>>]

AInit ==
    /\ CLIENT_ID \in ClientIds
    /\ CLIENT_SECRET \in ClientSecrets
    /\ auth_code = PyNoneStr
    /\ apc = "main"
    /\ inbound = <<>>
    /\ browser_opened = FALSE
    /\ server = "none"
    /\ exchange_posts = <<>>
    /\ exchange_response = NoResponse
    /\ auth_outcome = ""
    /\ env \in {[STRAVA_ACCESS_TOKEN |-> PyNoneStr, STRAVA_REFRESH_TOKEN |-> PyNoneStr],
                [STRAVA_ACCESS_TOKEN |-> "a0", STRAVA_REFRESH_TOKEN |-> "r0"]}
    /\ set_key_calls = <<>>

\* auth.py:94-97
AuthValidate ==
    /\ apc = "main"
    /\ IF ConfigMissing
       THEN apc' = "done" /\ auth_outcome' = "ERROR: Please set STRAVA_CLIENT_ID"
       ELSE apc' = "start" /\ UNCHANGED auth_outcome
    /\ UNCHANGED <<CLIENT_ID, CLIENT_SECRET, auth_code, inbound, browser_opened,
                   server, exchange_posts, exchange_response, env, set_key_calls>>
    /\ UNCHANGED <<hvars, dvars>>

\* auth.py:107-118
AuthStart ==
    /\ apc = "start"
    /\ server' = "listening"
    /\ browser_opened' = TRUE
    /\ apc' = "wait"
    /\ UNCHANGED <<CLIENT_ID, CLIENT_SECRET, auth_code, inbound, exchange_posts,
                   exchange_response, auth_outcome, env, set_key_calls>>
    /\ UNCHANGED <<hvars, dvars>>

\* auth.py:121-122: one turn of the loop, server.handle_request with do_GET
HandleRequest ==
    /\ apc = "wait"
    /\ Waiting
    /\ Len(inbound) < MaxInbound
    /\ \E r \in InboundRequests :
         /\ auth_code' = do_GET(r).auth_code
         /\ inbound' = Append(inbound, [request |-> r, status |-> do_GET(r).status])
    /\ UNCHANGED <<CLIENT_ID, CLIENT_SECRET, apc, browser_opened, server,
                   exchange_posts, exchange_response, auth_outcome, env,
                   set_key_calls>>
    /\ UNCHANGED <<hvars, dvars>>

\* auth.py:121 and 124: the loop ends, server.server_close
CloseServer ==
    /\ apc = "wait"
    /\ ~Waiting
    /\ server' = "closed"
    /\ apc' = "exchange"
    /\ UNCHANGED <<CLIENT_ID, CLIENT_SECRET, auth_code, inbound, browser_opened,
                   exchange_posts, exchange_response, auth_outcome, env,
                   set_key_calls>>
    /\ UNCHANGED <<hvars, dvars>>

\* auth.py:129-151
Exchange ==
    /\ apc = "exchange"
    /\ \E status \in ExchangeStatuses, shape \in BodyShapes, t \in TokenPairs :
         LET resp == [status |-> status, shape |-> shape,
                      access_token |-> t.access_token,
                      refresh_token |-> t.refresh_token] IN
         /\ exchange_posts' = Append(exchange_posts, auth_code)
         /\ exchange_response' = resp
         /\ auth_outcome' = SaveTokens(resp).outcome
         /\ env' = SaveTokens(resp).env
         /\ set_key_calls' = SaveTokens(resp).calls
    /\ apc' = "done"
    /\ UNCHANGED <<CLIENT_ID, CLIENT_SECRET, auth_code, inbound, browser_opened,
                   server>>
    /\ UNCHANGED <<hvars, dvars>>

ANext ==
    \/ AuthValidate
    \/ AuthStart
    \/ HandleRequest
    \/ CloseServer
    \/ Exchange

\* ------------------------------------------------ haddock.py: format_duration

\* Python's str() of a non-negative int.
Digit(d) == <<"0", "1", "2", "3", "4", "5", "6", "7", "8", "9">>[d + 1]
RECURSIVE str(_)
str(n) == IF n < 10 THEN Digit(n) ELSE str(n \div 10) \o Digit(n % 10)

\* sep.join(parts)
RECURSIVE join(_, _)
join(sep, parts) ==
    IF parts = <<>> THEN ""
    ELSE IF Len(parts) = 1 THEN parts[1]
    ELSE parts[1] \o sep \o join(sep, Tail(parts))

\* Variant: `if secs:` without `or not parts`.
format_duration_NoZero(s) ==
    LET hours == s \div 3600
        minutes == (s % 3600) \div 60
        secs == s % 60
        parts1 == IF hours # 0 THEN <<str(hours) \o "h">> ELSE <<>>
        parts2 == IF minutes # 0 THEN Append(parts1, str(minutes) \o "m") ELSE parts1
        parts3 == IF secs # 0 THEN Append(parts2, str(secs) \o "s") ELSE parts2
    IN join(" ", parts3)

\* haddock.py:113-127
format_duration(s) ==
    LET hours == s \div 3600
        minutes == (s % 3600) \div 60
        secs == s % 60
        parts0 == <<>>
        parts1 == IF hours # 0 THEN Append(parts0, str(hours) \o "h") ELSE parts0
        parts2 == IF minutes # 0 THEN Append(parts1, str(minutes) \o "m") ELSE parts1
        parts3 == IF secs # 0 \/ parts2 = <<>>
                  THEN Append(parts2, str(secs) \o "s") ELSE parts2
    IN join(" ", parts3)

DInit ==
    /\ seconds \in 0..MaxSeconds
    /\ duration = PyNoneStr

\* one call of format_duration, haddock.py:140
FormatDuration ==
    /\ duration = PyNoneStr
    /\ duration' = format_duration(seconds)
    /\ UNCHANGED seconds
    /\ UNCHANGED <<hvars, fvars, avars>>

DNext == FormatDuration

\* ---------------------------------------------------------- specifications

\* A flow that is not running.
HIdle ==
    /\ STRAVA_ACCESS_TOKEN = PyNoneStr
    /\ STRAVA_REFRESH_TOKEN = PyNoneStr
    /\ ANTHROPIC_API_KEY = PyNoneStr
    /\ args = [dry_run |-> FALSE, activity |-> Absent, activities |-> Absent]
    /\ pc = "idle"
    /\ fetched = PyNone
    /\ activities = PyList(<<>>)
    /\ idx = 0
    /\ generated = NoGenerated
    /\ req = NoReq
    /\ ret = ""
    /\ statuses = <<>>
    /\ nrefresh = 0
    /\ refresh_result = NoRefresh
    /\ callState = "none"
    /\ tokens = NoTokens
    /\ log = <<>>
    /\ strava = [a \in ActivityIds |-> Untouched]
    /\ outcome = ""
AIdle ==
    /\ CLIENT_ID = PyNoneStr
    /\ CLIENT_SECRET = PyNoneStr
    /\ auth_code = PyNoneStr
    /\ apc = "idle"
    /\ inbound = <<>>
    /\ browser_opened = FALSE
    /\ server = "none"
    /\ exchange_posts = <<>>
    /\ exchange_response = NoResponse
    /\ auth_outcome = ""
FIdle ==
    /\ env = [STRAVA_ACCESS_TOKEN |-> PyNoneStr, STRAVA_REFRESH_TOKEN |-> PyNoneStr]
    /\ set_key_calls = <<>>
DIdle ==
    /\ seconds = 0
    /\ duration = PyNoneStr

\* The transform flow: python haddock.py
Init == HInit /\ AIdle /\ DIdle
Next == HNext
Spec == Init /\ [][Next]_vars

\* The authorization flow: python auth.py
InitAuth == AInit /\ HIdle /\ DIdle
SpecAuth == InitAuth /\ [][ANext]_vars

\* Calls of format_duration
InitFmt == DInit /\ HIdle /\ AIdle /\ FIdle
SpecFmt == InitFmt /\ [][DNext]_vars

\* ------------------------------------------------------------- properties

CallFinished == callState \in {"returned", "raised"}
FirstIs401 == Len(statuses) >= 1 /\ statuses[1] = 401
RefreshSucceeded == refresh_result.status # 0 /\ refresh_result.exc = ""

\* The last request sent to the source service.
LastRequest ==
    LET sent == {k \in DOMAIN log : log[k].ev \in {"GET", "PUT"}} IN
    log[CHOOSE k \in sent : \A l \in sent : l <= k]

\* What every call of strava_request keeps, whatever the refresh does.
C1_Common ==
    /\ Len(statuses) <= 2
    /\ nrefresh <= 1
    /\ (Len(statuses) >= 1 /\ ~FirstIs401) => (nrefresh = 0 /\ Len(statuses) = 1)
    /\ (Len(statuses) = 2 /\ statuses[2] = 401)
          => (callState = "raised" /\ pc = "done" /\ nrefresh = 1)

\* C1 as stated: a call of strava_request whose first response is 401 performs
\* exactly one refresh and exactly one retried request; a second 401 raises
\* with no further refresh or retry; a first response other than 401 brings
\* no refresh and no retry; so at most 2 requests and 1 refresh per call.
C1_AsStated ==
    /\ C1_Common
    /\ (CallFinished /\ FirstIs401) => (nrefresh = 1 /\ Len(statuses) = 2)

\* C1 amended: after a first 401 exactly one refresh POST is made; the request
\* is retried exactly once when that refresh succeeds (2xx with both tokens)
\* and not at all when it fails, in which case the call raises; the retry
\* carries the new access token; a second 401 raises with no further refresh
\* or retry; a first response other than 401 brings no refresh and no retry.
C1_RefreshOnceRetryOnce ==
    /\ C1_Common
    /\ (CallFinished /\ FirstIs401) =>
          /\ nrefresh = 1
          /\ IF RefreshSucceeded
             THEN /\ Len(statuses) = 2
                  /\ LastRequest.ev = req.method
                  /\ LastRequest.token = tokens.access_token
                  /\ LastRequest.token = STRAVA_ACCESS_TOKEN
             ELSE Len(statuses) = 1 /\ callState = "raised"
C1_Witness ==
    /\ callState = "raised"
    /\ Len(statuses) = 2
    /\ statuses[1] = 401
    /\ statuses[2] = 401
    /\ nrefresh = 1

\* C2 as stated: in every selection mode, when the service answers the fetch
\* with an empty activity list, main ends with "No activities found!",
\* without an exception and without any generation or update call.
C2_AsStated ==
    (pc = "done" /\ fetched = PyList(<<>>)) =>
        /\ outcome = "No activities found!"
        /\ \A k \in DOMAIN log : log[k].ev \notin {"haddockify", "update_activity", "PUT"}

UpdateCalls(i) == {k \in DOMAIN log : log[k].ev = "update_activity" /\ log[k].i = i}
Puts(i) == {k \in DOMAIN log : log[k].ev = "PUT" /\ log[k].i = i}
GeneratedAt(i) == {k \in DOMAIN log : log[k].ev = "generated" /\ log[k].i = i}
\* Activity i went through generation and the update-or-preview step.
Processed(i) == GeneratedAt(i) # {} /\ ~(idx = i /\ pc = "publish")

\* C3: with --dry-run no update call and no PUT is ever issued; without it
\* exactly one update call (one call of update_activity) is issued per
\* processed activity, and every update call and PUT carries that activity's
\* id and the title and description generated for that same activity. The
\* one call sends its PUT once, or twice when the first was answered 401.
C3_OneUpdatePerActivity ==
    /\ args.dry_run =>
          /\ \A k \in DOMAIN log : log[k].ev \notin {"update_activity", "PUT"}
          /\ \A a \in ActivityIds : strava[a] = Untouched
    /\ ~args.dry_run =>
          \A i \in 1..Len(activities.items) :
             Cardinality(UpdateCalls(i)) = IF Processed(i) THEN 1 ELSE 0
    /\ \A i \in 1..Len(activities.items) :
          /\ Cardinality(Puts(i)) <= 2
          /\ Puts(i) # {} => UpdateCalls(i) # {}
          /\ Cardinality(Puts(i)) = 2 =>
                \E k \in DOMAIN log : log[k].ev = "refresh" /\ log[k].i = i
    /\ \A k \in DOMAIN log :
          log[k].ev \in {"update_activity", "PUT"} =>
             /\ log[k].i \in 1..Len(activities.items)
             /\ log[k].id = activities.items[log[k].i].id
             /\ \E g \in GeneratedAt(log[k].i) :
                   /\ g < k
                   /\ log[k].title = log[g].title
                   /\ log[k].description = log[g].description
C3_Witness ==
    /\ ~args.dry_run
    /\ outcome = "completed"
    /\ Len(activities.items) = 2
    /\ Cardinality(UpdateCalls(1)) = 1
    /\ Cardinality(UpdateCalls(2)) = 1
    /\ strava[activities.items[2].id].name = "T1"

\* C4 as stated: right after a successful refresh the access token and the
\* refresh token held by the process and those in the credential file all
\* equal the pair the response returned, and a later refresh of the run
\* sends the most recently issued refresh token.
C4_AsStated ==
    /\ pc = "retry" =>
          /\ STRAVA_ACCESS_TOKEN = tokens.access_token
          /\ STRAVA_REFRESH_TOKEN = tokens.refresh_token
          /\ env.STRAVA_ACCESS_TOKEN = tokens.access_token
          /\ env.STRAVA_REFRESH_TOKEN = tokens.refresh_token
    /\ (pc = "refresh" /\ tokens # NoTokens) =>
          STRAVA_REFRESH_TOKEN = tokens.refresh_token

\* The order of the events of one activity.
Rank(ev) == CASE ev = "haddockify" -> 1
              [] ev \in {"generated", "APIError", "Exception"} -> 2
              [] ev = "update_activity" -> 3
              [] OTHER -> 4
GenerationFailed(k) == log[k].ev \in {"APIError", "Exception"}

\* C5: activities are processed strictly in order, generation then update of
\* activity i before generation of activity i+1; once generation fails for an
\* activity no generation and no update call is made for it or for a later
\* one; the updates already made for earlier activities remain.
C5_SequentialAbortOnFailure ==
    /\ \A k, l \in DOMAIN log :
          k < l => /\ log[k].i <= log[l].i
                   /\ (log[k].i = log[l].i /\ log[k].i > 0)
                         => Rank(log[k].ev) <= Rank(log[l].ev)
    /\ \A i \in 1..Len(activities.items) :
          Cardinality({k \in DOMAIN log : log[k].ev = "haddockify" /\ log[k].i = i}) <= 1
    /\ \A k \in DOMAIN log :
          GenerationFailed(k) =>
             /\ k = Len(log)
             /\ pc = "done"
             /\ UpdateCalls(log[k].i) = {}
             /\ \A i \in 1..(log[k].i - 1) :
                   ~args.dry_run =>
                      \E g \in GeneratedAt(i) :
                         strava[activities.items[i].id] =
                            [name |-> log[g].title, description |-> log[g].description]
C5_Witness ==
    /\ log # <<>>
    /\ log[Len(log)].ev = "APIError"
    /\ log[Len(log)].i = 2
    /\ Cardinality(UpdateCalls(1)) = 1
    /\ strava[activities.items[1].id].name = "T1"
    /\ strava[activities.items[2].id] = Untouched

\* A handled callback request that carries a code or an error parameter.
CarriesCodeOrError(e) ==
    e.request.path = "/callback" /\ parse_qs(e.request) # {}

\* C6 as stated: once the listener has handled a callback request carrying a
\* code or an error parameter no further inbound request is accepted, and the
\* token exchange is attempted only if a code was captured.
C6_AsStated ==
    /\ \A k \in DOMAIN inbound : CarriesCodeOrError(inbound[k]) => k = Len(inbound)
    /\ exchange_posts # <<>> => auth_code # PyNoneStr

\* main returned at the configuration check and did nothing else.
FailedFast ==
    /\ apc = "done"
    /\ auth_outcome = "ERROR: Please set STRAVA_CLIENT_ID"
    /\ ~browser_opened
    /\ server = "none"
    /\ inbound = <<>>
    /\ exchange_posts = <<>>
    /\ set_key_calls = <<>>
\* The placeholders auth.py knows (auth.py:94).
KnownPlaceholders == {"your_client_secret_here"}

\* C7 as stated: if the client id or the client secret is absent or equal to
\* a known placeholder, main reports the error and returns without opening
\* the browser, starting the listener, posting the exchange or writing the
\* credential file.
C7_AsStated ==
    (apc # "main" /\ (\/ Falsy(CLIENT_ID) \/ CLIENT_ID \in KnownPlaceholders
                      \/ Falsy(CLIENT_SECRET) \/ CLIENT_SECRET \in KnownPlaceholders))
        => FailedFast

\* C7 amended: if the client id is absent or empty, or the client secret is
\* absent, empty or equal to the placeholder "your_client_secret_here", main
\* reports the error and returns without opening the browser, starting the
\* listener, posting the exchange or writing the credential file.
C7_FailFast ==
    (apc # "main" /\ (\/ Falsy(CLIENT_ID)
                      \/ Falsy(CLIENT_SECRET)
                      \/ CLIENT_SECRET = "your_client_secret_here"))
        => FailedFast
C7_Witness ==
    /\ CLIENT_ID = "12345"
    /\ CLIENT_SECRET = "your_client_secret_here"
    /\ apc = "done"

BothSaved(resp) ==
    /\ env = [STRAVA_ACCESS_TOKEN |-> resp.access_token,
              STRAVA_REFRESH_TOKEN |-> resp.refresh_token]
    /\ set_key_calls = <<<<"STRAVA_ACCESS_TOKEN", resp.access_token>>,
                         <<"STRAVA_REFRESH_TOKEN", resp.refresh_token>>>>
C8_State ==
    /\ set_key_calls # <<>> =>
          /\ exchange_posts # <<>>
          /\ ~raise_for_status(exchange_response.status)
          /\ BothSaved(exchange_response)
    /\ (exchange_posts # <<>> /\ raise_for_status(exchange_response.status)) =>
          /\ auth_outcome = "Error exchanging code"
          /\ set_key_calls = <<>>
    /\ (exchange_posts # <<>> /\ ~raise_for_status(exchange_response.status)
          /\ exchange_response.shape = "full") => BothSaved(exchange_response)

\* C8: the credential file is written only after a 2xx token exchange, and
\* then both the access token and the refresh token of the response are
\* persisted; on a non-2xx response the flow fails and neither token in the
\* credential file is changed.
C8_WriteOnlyAfterSuccess ==
    /\ []C8_State
    /\ [][(apc = "exchange" /\ raise_for_status(exchange_response'.status))
             => env' = env]_vars
C8_Witness ==
    /\ apc = "done"
    /\ exchange_response.status = 200
    /\ env = [STRAVA_ACCESS_TOKEN |-> "a2", STRAVA_REFRESH_TOKEN |-> "r2"]
    /\ Len(set_key_calls) = 2

\* The claim's rendering: the non-zero components among hours, minutes and
\* seconds, each with its unit, in that order, joined by one space.
Components(s) ==
    <<[n |-> s \div 3600, unit |-> "h"],
      [n |-> (s % 3600) \div 60, unit |-> "m"],
      [n |-> s % 60, unit |-> "s"]>>
RECURSIVE Render(_)
Render(cs) ==
    IF cs = <<>> THEN ""
    ELSE LET rest == Render(Tail(cs)) IN
         IF cs[1].n = 0 THEN rest
         ELSE IF rest = "" THEN str(cs[1].n) \o cs[1].unit
         ELSE str(cs[1].n) \o cs[1].unit \o " " \o rest
Expected(s) == IF Render(Components(s)) = "" THEN "0s" ELSE Render(Components(s))

\* C9: for every number of seconds s >= 0, format_duration(s) is the
\* space-joined list, in the order hours, minutes, seconds, of the non-zero
\* components rendered "<h>h", "<m>m", "<sec>s", and "0s" when all are zero:
\* 0 gives "0s", 90 gives "1m 30s", 3661 gives "1h 1m 1s".
C9_FormatDuration ==
    duration # PyNoneStr =>
        /\ duration = Expected(seconds)
        /\ seconds = 0 => duration = "0s"
        /\ seconds = 90 => duration = "1m 30s"
        /\ seconds = 3661 => duration = "1h 1m 1s"
        /\ seconds = 3600 => duration = "1h"
        /\ seconds = 7205 => duration = "2h 5s"
C9_Witness == seconds = 3661 /\ duration = "1h 1m 1s"

\* C10: when strava_request gets a 401 and the refresh POST is answered with
\* a non-2xx status, the call raises without retrying the request, and the
\* access token of the process and both tokens of the credential file are
\* left as they were.
C10_FailedRefreshChangesNothing ==
    [][(pc = "refresh" /\ raise_for_status(refresh_result'.status)) =>
          /\ pc' = "done"
          /\ callState' = "raised"
          /\ outcome' = "HTTPError"
          /\ statuses' = statuses
          /\ STRAVA_ACCESS_TOKEN' = STRAVA_ACCESS_TOKEN
          /\ env' = env
          /\ set_key_calls' = set_key_calls]_vars
C10_Witness ==
    /\ callState = "raised"
    /\ nrefresh = 1
    /\ refresh_result.status = 400
    /\ Len(statuses) = 1
    /\ req.method = "PUT"

====
